---------------------------- MODULE Spec2Model ----------------------------
(***************************************************************************)
(* Gold-price predictor apps: gradioReg_app.py (one linear model) and      *)
(* Comparaison_app.py (linear model and random forest side by side).       *)
(*                                                                         *)
(* Each script is a process: it loads its model artifacts at module level, *)
(* then main() builds the form and launches the listener.  After launch,   *)
(* UI sessions click the button; every click runs the script's prediction  *)
(* function, statement by statement, possibly concurrently with the calls  *)
(* of other sessions.                                                      *)
(*                                                                         *)
(* Python values are records tagged with their type, so that a conversion  *)
(* (float(...), indexing an array) is visible in the value.                *)
(***************************************************************************)
EXTENDS Integers, Sequences, FiniteSets, TLC

(***************************************************************************)
(* Bounds of the model.                                                    *)
(***************************************************************************)
\* UI sessions (browser tabs) that may have a call in flight at once.
MaxSessions == 2

Sessions == 1..MaxSessions

(***************************************************************************)
(* Python values.                                                          *)
(***************************************************************************)
Float(n) == [type |-> "float", v |-> n]
Float64(n) == [type |-> "numpy.float64", v |-> n]
None == [type |-> "NoneType", v |-> 0]
Tuple2(a, b) == [type |-> "tuple", items |-> <<a, b>>]
NdArray(items) == [type |-> "numpy.ndarray", items |-> items]

\* float(x) of a NumPy float: a plain Python float of the same value.
ToFloat(x) == Float(x.v)

\* a[0] of a NumPy array.
Item0(a) == a.items[1]

\* The result of a call that may raise.
Ok(v) == [ok |-> TRUE, value |-> v, error |-> "none"]
Raise(e) == [ok |-> FALSE, value |-> None, error |-> e]

(***************************************************************************)
(* The values a session can enter in the four number fields.  An empty     *)
(* number field reaches the function as None.                              *)
(***************************************************************************)
\* A number is held as its count of ten-thousandths: Float(n) is n / 10^4,
\* so that a value of four decimals, the finest precision a widget of the
\* two scripts has, is a whole count.
Decimals == 4
NoPrecision == -1

ZeroRow == <<Float(0), Float(0), Float(0), Float(0)>>
SampleRow == <<Float(1400), Float(1200), Float(1500), Float(1)>>
\* SPX entered with four decimals, the USO field left empty.
EmptyFieldRow == <<Float(1449), None, Float(1500), Float(1)>>
Inputs == {ZeroRow, SampleRow, EmptyFieldRow}

Finite(row) == \A i \in 1..Len(row) : row[i].type = "float"

(***************************************************************************)
(* The model artifact store: the two pickle files, and what they may hold. *)
(***************************************************************************)
model_filename == "linear_regression_model.pkl"
linear_model_filename == "linear_regression_model.pkl"
forest_model_filename == "forest_regressor_model.pkl"
Filenames == {linear_model_filename, forest_model_filename}

\* The column names the artifacts of this repository were trained with.
TrainedNames == <<"SPX", "USO", "SLV", "EUR/USD">>
\* The field names of the data model of the specification.
OtherNames == <<"SPX", "USO", "SLV", "EURUSD">>

LinearArtifact(names) ==
    [kind |-> "LinearRegression", feature_names_in |-> names,
     coef |-> <<1, 2, 3, 5>>, intercept |-> 7,
     feature |-> 0, threshold |-> 0, low |-> 0, high |-> 0]
ForestArtifact(names) ==
    [kind |-> "RandomForestRegressor", feature_names_in |-> names,
     coef |-> <<0, 0, 0, 0>>, intercept |-> 0,
     feature |-> 1, threshold |-> 100, low |-> 80, high |-> 120]

Missing == [kind |-> "missing"]
Corrupt == [kind |-> "corrupt"]
NotLoaded == [kind |-> "unbound"]

\* What each file may hold: a model of its family, trained with either set
\* of column names, or nothing loadable.
LinearContents == {LinearArtifact(TrainedNames), LinearArtifact(OtherNames),
                   Missing, Corrupt}
ForestContents == {ForestArtifact(TrainedNames), ForestArtifact(OtherNames),
                   Missing, Corrupt}
Stores == {f \in [Filenames -> LinearContents \cup ForestContents] :
             /\ f[linear_model_filename] \in LinearContents
             /\ f[forest_model_filename] \in ForestContents}

IsArtifact(m) == m.kind \in {"LinearRegression", "RandomForestRegressor"}
WellFormed(m) == IsArtifact(m) /\ m.feature_names_in = TrainedNames

\* joblib.load(path): the object the file holds, or the failure to load it.
JoblibLoad(files, path) ==
    CASE files[path] = Missing -> Raise("FileNotFoundError")
      [] files[path] = Corrupt -> Raise("UnpicklingError")
      [] OTHER -> Ok(files[path])

\* The value a fitted regressor computes for one row of finite numbers.
Regress(m, row) ==
    IF m.kind = "LinearRegression"
    THEN m.intercept + m.coef[1] * row[1].v + m.coef[2] * row[2].v
                     + m.coef[3] * row[3].v + m.coef[4] * row[4].v
    ELSE IF row[m.feature].v <= m.threshold THEN m.low ELSE m.high

\* artifact.predict(X): an array with one prediction per row of X, or the
\* error the artifact raises when it rejects X.
ArtifactPredict(m, X) ==
    IF ~IsArtifact(m) THEN Raise("NameError")
    ELSE IF X.columns # m.feature_names_in THEN Raise("FeatureMismatchError")
    ELSE IF ~Finite(X.data[1]) THEN Raise("PredictionError")
    ELSE Ok(NdArray(<<Float64(Regress(m, X.data[1]))>>))

(***************************************************************************)
(* pandas.DataFrame(data, columns=...)                                     *)
(***************************************************************************)
DataFrame(data, columns) == [columns |-> columns, data |-> data]
NoFrame == DataFrame(<<>>, <<>>)


(***************************************************************************)
(* State.                                                                  *)
(***************************************************************************)
VARIABLES
    store,              \* the files of the working directory: name -> content
    pc,                 \* each script's position: its module-level statement
    traceback,          \* the error that ended a script, or "none"
    linear,             \* gradioReg_app: the module-level name `linear`
    linear_regressor,   \* Comparaison_app: the module-level name
    forest_regressor,   \* Comparaison_app: the module-level name
    frame,              \* per session: the call frame of the running call
    outcome,            \* per session: what its last call gave the UI
    handed,             \* per session: the frames each artifact was handed
    overlapped,         \* per session: its call ended beside another call
    widgets,            \* per session: the values of the four number fields
    loads               \* per script: the files it has called joblib.load on

appvars == <<store, pc, traceback, linear, linear_regressor, forest_regressor,
             frame, outcome, handed, overlapped, widgets, loads>>

\* The state of the vendored UI library (gradio/flagging.py, interface.py).
VARIABLES
    callback,           \* the flagging callback: its class and its components
    log_csv,            \* the file log.csv of the flagging directory
    flagged,            \* the calls of flag made so far
    flag_return         \* what the last call of flag returned

flagvars == <<callback, log_csv, flagged, flag_return>>

VARIABLES
    interface,          \* the Interface object: its parameters and its buttons
    submit              \* the run the submit button started, and the runs so far

ifacevars == <<interface, submit>>

VARIABLES
    thread,             \* per thread: the call of a flag method it runs
    dataset             \* HuggingFaceDatasetSaver: the dataset directory, its
                        \* locks and the uploads made to the Hub

racevars == <<thread, dataset>>
libvars == <<flagvars, ifacevars, racevars>>
vars == <<appvars, libvars>>

Predictor == "gradioReg_app"
Comparator == "Comparaison_app"
Apps == {Predictor, Comparator}

\* The function each script binds to its button.
Fn(app) == IF app = Predictor THEN "predict_gld_price" ELSE "compare_models"

IdleFrame ==
    [fn |-> "none", pc |-> "idle", args |-> <<>>,
     features_df |-> NoFrame, predicted_price |-> None,
     linear_predicted_price |-> None, forest_predicted_price |-> None]

NoOutcome == [kind |-> "none", fn |-> "none", args |-> <<>>,
              value |-> None, error |-> "none"]
NothingHanded == [linear |-> <<>>, forest |-> <<>>]

\* The four number fields of the form, by the names the scripts give them.
\* A field nothing was entered in holds None.
Entered(row) == [SPX |-> row[1], USO |-> row[2], SLV |-> row[3], EURUSD |-> row[4]]
EmptyForm == Entered(<<None, None, None, None>>)

\* No flagging callback is in use.
NoFile == [exists |-> FALSE, rows |-> <<>>]
FlagOff ==
    /\ callback = [class |-> "none", state |-> "off", components |-> <<>>]
    /\ log_csv = NoFile
    /\ flagged = 0
    /\ flag_return = -1
\* No Interface is built: both scripts build their page with gr.Blocks.
NoInterface ==
    [state |-> "off", interface_type |-> "none", live |-> FALSE,
     allow_flagging |-> "never", generator |-> FALSE,
     _submit_btn |-> FALSE, _stop_btn |-> FALSE, flag_btns |-> "None",
     _submit_event |-> "None", auto_flag |-> FALSE,
     stop_btn_parms |-> [visible |-> FALSE]]
NoSubmit ==
    [pc |-> "idle", runs |-> 0, succeeded |-> 0, inputs |-> <<>>, outputs |-> <<>>,
     _submit_btn |-> [visible |-> TRUE], _stop_btn |-> [visible |-> FALSE]]
IfaceOff ==
    /\ interface = NoInterface
    /\ submit = NoSubmit
\* No thread runs a flag method and no dataset directory exists.
MaxThreads == 2
Threads == 1..MaxThreads
PyInt(n) == [type |-> "int", v |-> n]
NoMethod == [label |-> "", value |-> "", visual_feedback |-> FALSE]
NoThread ==
    [pc |-> "idle", method |-> NoMethod, flag_data |-> <<>>, username |-> None,
     is_new |-> FALSE, features |-> <<>>, row |-> <<>>,
     result |-> Ok(None), returned |-> None]
NoDataset ==
    [infos_file |-> [exists |-> FALSE, features |-> <<>>, writes |-> 0],
     data_csv |-> NoFile,
     infos_lock |-> 0, dir_lock |-> 0,
     upload_file |-> 0, upload_folder |-> <<>>]
RaceOff ==
    /\ thread = [t \in Threads |-> NoThread]
    /\ dataset = NoDataset
LibOff == FlagOff /\ IfaceOff /\ RaceOff

InFlight(s) == frame[s].pc # "idle"

(***************************************************************************)
(* Module-level statements of the two scripts.                             *)
(***************************************************************************)
AppInit ==
    /\ store \in Stores
    /\ pc = [a \in Apps |-> IF a = Predictor THEN "l7" ELSE "l8"]
    /\ traceback = [a \in Apps |-> "none"]
    /\ linear = NotLoaded
    /\ linear_regressor = NotLoaded
    /\ forest_regressor = NotLoaded
    /\ frame = [s \in Sessions |-> IdleFrame]
    /\ outcome = [s \in Sessions |-> NoOutcome]
    /\ handed = [s \in Sessions |-> NothingHanded]
    /\ overlapped = [s \in Sessions |-> FALSE]
    /\ widgets = [s \in Sessions |-> EmptyForm]
    /\ loads = [a \in Apps |-> <<>>]

Init == AppInit /\ LibOff

\* An uncaught exception at module level ends the script.
Crash(app, e) ==
    /\ pc' = [pc EXCEPT ![app] = "crashed"]
    /\ traceback' = [traceback EXCEPT ![app] = e]

\* gradioReg_app.py line 7: linear = joblib.load(model_filename)
PredictorLoad ==
    /\ pc[Predictor] = "l7"
    /\ loads' = [loads EXCEPT ![Predictor] = Append(@, model_filename)]
    /\ LET r == JoblibLoad(store, model_filename) IN
         IF r.ok
         THEN /\ linear' = r.value
              /\ pc' = [pc EXCEPT ![Predictor] = "l39"]
              /\ UNCHANGED traceback
         ELSE /\ Crash(Predictor, r.error)
              /\ UNCHANGED linear
    /\ UNCHANGED <<store, linear_regressor, forest_regressor,
                   frame, outcome, handed, overlapped>>
    /\ UNCHANGED <<widgets, libvars>>

\* gradioReg_app.py lines 39-40 and main(): the form is built and launched.
PredictorMain ==
    /\ pc[Predictor] = "l39"
    /\ pc' = [pc EXCEPT ![Predictor] = "serving"]
    /\ UNCHANGED <<store, traceback, linear, linear_regressor,
                   forest_regressor, frame, outcome, handed, overlapped>>
    /\ UNCHANGED <<widgets, loads, libvars>>

\* Comparaison_app.py line 8: linear_regressor = joblib.load(...)
ComparatorLoadLinear ==
    /\ pc[Comparator] = "l8"
    /\ loads' = [loads EXCEPT ![Comparator] = Append(@, linear_model_filename)]
    /\ LET r == JoblibLoad(store, linear_model_filename) IN
         IF r.ok
         THEN /\ linear_regressor' = r.value
              /\ pc' = [pc EXCEPT ![Comparator] = "l9"]
              /\ UNCHANGED traceback
         ELSE /\ Crash(Comparator, r.error)
              /\ UNCHANGED linear_regressor
    /\ UNCHANGED <<store, linear, forest_regressor,
                   frame, outcome, handed, overlapped>>
    /\ UNCHANGED <<widgets, libvars>>

\* Mutant of ComparatorLoadForest: the load sits in a try/except that passes.
ComparatorLoadForestSwallows ==
    /\ pc[Comparator] = "l9"
    /\ loads' = [loads EXCEPT ![Comparator] = Append(@, forest_model_filename)]
    /\ LET r == JoblibLoad(store, forest_model_filename) IN
         forest_regressor' = IF r.ok THEN r.value ELSE forest_regressor
    /\ pc' = [pc EXCEPT ![Comparator] = "l56"]
    /\ UNCHANGED <<store, traceback, linear, linear_regressor,
                   frame, outcome, handed, overlapped>>
    /\ UNCHANGED <<widgets, libvars>>

\* Comparaison_app.py line 9: forest_regressor = joblib.load(...)
ComparatorLoadForest ==
    /\ pc[Comparator] = "l9"
    /\ loads' = [loads EXCEPT ![Comparator] = Append(@, forest_model_filename)]
    /\ LET r == JoblibLoad(store, forest_model_filename) IN
         IF r.ok
         THEN /\ forest_regressor' = r.value
              /\ pc' = [pc EXCEPT ![Comparator] = "l56"]
              /\ UNCHANGED traceback
         ELSE /\ Crash(Comparator, r.error)
              /\ UNCHANGED forest_regressor
    /\ UNCHANGED <<store, linear, linear_regressor,
                   frame, outcome, handed, overlapped>>
    /\ UNCHANGED <<widgets, libvars>>

\* Comparaison_app.py lines 56-57 and main(): the form is built and launched.
ComparatorMain ==
    /\ pc[Comparator] = "l56"
    /\ pc' = [pc EXCEPT ![Comparator] = "serving"]
    /\ UNCHANGED <<store, traceback, linear, linear_regressor,
                   forest_regressor, frame, outcome, handed, overlapped>>
    /\ UNCHANGED <<widgets, loads, libvars>>

(***************************************************************************)
(* A click on the button: the UI calls the bound function with the four    *)
(* field values, positionally.                                             *)
(***************************************************************************)
NewFrame(app, row) ==
    [IdleFrame EXCEPT !.fn = Fn(app), !.args = row,
                      !.pc = IF app = Predictor THEN "l13" ELSE "l16"]

\* round(num, precision) of a number of Decimals decimals: the nearest number
\* of precision decimals, a tie going to the even one.
Pow10(k) == IF k = 0 THEN 1 ELSE IF k = 1 THEN 10 ELSE IF k = 2 THEN 100
            ELSE IF k = 3 THEN 1000 ELSE 10000
RoundTo(n, precision) ==
    LET step == Pow10(Decimals - precision)
        q == n \div step
        r == n % step
    IN IF 2 * r < step THEN q * step
       ELSE IF 2 * r > step THEN (q + 1) * step
       ELSE IF q % 2 = 0 THEN q * step ELSE (q + 1) * step

\* What a gr.Number widget hands to the function for the value in its field:
\* None for an empty field, the value itself when the widget has no
\* precision, the value rounded to the widget's precision otherwise.
NumberPreprocess(value, precision) ==
    IF value.type = "NoneType" THEN None
    ELSE IF precision = NoPrecision THEN value
    ELSE Float(RoundTo(value.v, precision))

\* A version of ComparatorInputs whose widgets have no precision.
ComparatorInputsUnrounded(w) ==
    <<NumberPreprocess(w.SPX, NoPrecision), NumberPreprocess(w.USO, NoPrecision),
      NumberPreprocess(w.SLV, NoPrecision), NumberPreprocess(w.EURUSD, NoPrecision)>>

\* gradioReg_app.py lines 23-26 and 33: four gr.Number(label=...) widgets,
\* inputs=[SPX, USO, SLV, EURUSD]
PredictorInputs(w) ==
    <<NumberPreprocess(w.SPX, NoPrecision), NumberPreprocess(w.USO, NoPrecision),
      NumberPreprocess(w.SLV, NoPrecision), NumberPreprocess(w.EURUSD, NoPrecision)>>

\* A binding that lists the input widgets in another order.
ComparatorInputsReordered(w) ==
    <<NumberPreprocess(w.USO, 2), NumberPreprocess(w.SPX, 2),
      NumberPreprocess(w.SLV, 2), NumberPreprocess(w.EURUSD, 4)>>

\* Comparaison_app.py lines 35-38 and 50: SPX, USO and SLV are
\* gr.Number(..., precision=2), EURUSD is gr.Number(..., precision=4);
\* inputs=[SPX, USO, SLV, EURUSD]
ComparatorInputs(w) ==
    <<NumberPreprocess(w.SPX, 2), NumberPreprocess(w.USO, 2),
      NumberPreprocess(w.SLV, 2), NumberPreprocess(w.EURUSD, 4)>>

ClickInputs(app, w) ==
    IF app = Predictor THEN PredictorInputs(w) ELSE ComparatorInputs(w)

\* outputs=output_label: the returned value is shown in the one output widget.
PredictorOutputs(value) == [output_label |-> value]

\* outputs=[output_linear, output_forest]: element 0 of the returned tuple is
\* shown in output_linear, element 1 in output_forest.
ComparatorOutputs(value) ==
    [output_linear |-> value.items[1], output_forest |-> value.items[2]]

\* The session has entered row in the four fields, in their order on the
\* form, and clicks.
Click(s, app, row) ==
    /\ pc[app] = "serving"
    /\ ~InFlight(s)
    /\ widgets' = [widgets EXCEPT ![s] = Entered(row)]
    /\ frame' = [frame EXCEPT ![s] = NewFrame(app, ClickInputs(app, Entered(row)))]
    /\ outcome' = [outcome EXCEPT ![s] = NoOutcome]
    /\ handed' = [handed EXCEPT ![s] = NothingHanded]
    /\ overlapped' = [overlapped EXCEPT ![s] = FALSE]
    /\ UNCHANGED <<store, pc, traceback, linear, linear_regressor,
                   forest_regressor>>
    /\ UNCHANGED <<loads, libvars>>

\* A step of the call of session s that ends the call notes whether a call
\* of another session on the same script is running at that moment.
OverlapNoted(s) ==
    overlapped' =
        IF frame'[s] = IdleFrame
        THEN [overlapped EXCEPT ![s] =
                \E u \in Sessions \ {s} : frame[u].fn = frame[s].fn]
        ELSE overlapped

\* The call of session s returns v: its frame is gone, the UI gets v.
Return(s, v) ==
    /\ frame' = [frame EXCEPT ![s] = IdleFrame]
    /\ outcome' = [outcome EXCEPT ![s] =
                     [kind |-> "returned", fn |-> frame[s].fn,
                      args |-> frame[s].args, value |-> v, error |-> "none"]]

\* The call of session s raises e: nothing catches it before the UI.
Raises(s, e) ==
    /\ frame' = [frame EXCEPT ![s] = IdleFrame]
    /\ outcome' = [outcome EXCEPT ![s] =
                     [kind |-> "raised", fn |-> frame[s].fn,
                      args |-> frame[s].args, value |-> None, error |-> e]]

(***************************************************************************)
(* gradioReg_app.py: predict_gld_price(SPX, USO, SLV, EURUSD)              *)
(***************************************************************************)
\* Mutant of PredictFeaturesDf: an empty field is replaced by 0.0.
PredictFeaturesDfFillsMissing(SPX, USO, SLV, EURUSD) ==
    LET fill(x) == IF x.type = "NoneType" THEN Float(0) ELSE x IN
    DataFrame(<< <<fill(SPX), fill(USO), fill(SLV), fill(EURUSD)>> >>,
              <<"SPX", "USO", "SLV", "EUR/USD">>)

\* Mutant of PredictFeaturesDf: the first two column names change places.
PredictFeaturesDfReordered(SPX, USO, SLV, EURUSD) ==
    DataFrame(<< <<SPX, USO, SLV, EURUSD>> >>, <<"USO", "SPX", "SLV", "EUR/USD">>)

\* Mutant of PredictFeaturesDf: the first two values change places.
PredictFeaturesDfSwapped(SPX, USO, SLV, EURUSD) ==
    DataFrame(<< <<USO, SPX, SLV, EURUSD>> >>, <<"SPX", "USO", "SLV", "EUR/USD">>)

\* line 13
PredictFeaturesDf(SPX, USO, SLV, EURUSD) ==
    DataFrame(<< <<SPX, USO, SLV, EURUSD>> >>, <<"SPX", "USO", "SLV", "EUR/USD">>)

PredictBuild(s) ==
    /\ frame[s].fn = "predict_gld_price" /\ frame[s].pc = "l13"
    /\ LET a == frame[s].args IN
         frame' = [frame EXCEPT
                     ![s].features_df = PredictFeaturesDf(a[1], a[2], a[3], a[4]),
                     ![s].pc = "l14"]
    /\ UNCHANGED <<store, pc, traceback, linear, linear_regressor,
                   forest_regressor, outcome, handed>>
    /\ OverlapNoted(s)
    /\ UNCHANGED <<widgets, loads, libvars>>

\* Mutant of PredictCall: the call refits the model it should only read.
PredictCallRefits(s) ==
    /\ frame[s].fn = "predict_gld_price" /\ frame[s].pc = "l14"
    /\ handed' = [handed EXCEPT ![s].linear = Append(@, frame[s].features_df)]
    /\ linear' = [linear EXCEPT !.intercept = 8]
    /\ LET r == ArtifactPredict(linear, frame[s].features_df) IN
         IF r.ok
         THEN /\ frame' = [frame EXCEPT ![s].predicted_price = r.value,
                                        ![s].pc = "l15"]
              /\ UNCHANGED outcome
         ELSE Raises(s, r.error)
    /\ UNCHANGED <<store, pc, traceback, linear_regressor,
                   forest_regressor>>
    /\ OverlapNoted(s)
    /\ UNCHANGED <<widgets, loads, libvars>>

\* Mutant of PredictCall: a failed prediction is caught and 0.0 returned.
PredictCallDefaults(s) ==
    /\ frame[s].fn = "predict_gld_price" /\ frame[s].pc = "l14"
    /\ handed' = [handed EXCEPT ![s].linear = Append(@, frame[s].features_df)]
    /\ LET r == ArtifactPredict(linear, frame[s].features_df) IN
         IF r.ok
         THEN /\ frame' = [frame EXCEPT ![s].predicted_price = r.value,
                                        ![s].pc = "l15"]
              /\ UNCHANGED outcome
         ELSE Return(s, Float(0))
    /\ UNCHANGED <<store, pc, traceback, linear, linear_regressor,
                   forest_regressor>>
    /\ OverlapNoted(s)
    /\ UNCHANGED <<widgets, loads, libvars>>

\* line 14: predicted_price = linear.predict(features_df)
\* Mutant of PredictCall: a failed prediction stops the script.
PredictCallStopsOnFailure(s) ==
    /\ frame[s].fn = "predict_gld_price" /\ frame[s].pc = "l14"
    /\ handed' = [handed EXCEPT ![s].linear = Append(@, frame[s].features_df)]
    /\ LET r == ArtifactPredict(linear, frame[s].features_df) IN
         IF r.ok
         THEN /\ frame' = [frame EXCEPT ![s].predicted_price = r.value,
                                        ![s].pc = "l15"]
              /\ UNCHANGED <<outcome, pc, traceback>>
         ELSE /\ Raises(s, r.error)
              /\ Crash(Predictor, r.error)
    /\ UNCHANGED <<store, linear, linear_regressor, forest_regressor>>
    /\ OverlapNoted(s)
    /\ UNCHANGED <<widgets, loads, libvars>>

\* Mutant of PredictCall: the function loads the model file again before it
\* predicts.
PredictCallReloads(s) ==
    /\ frame[s].fn = "predict_gld_price" /\ frame[s].pc = "l14"
    /\ loads' = [loads EXCEPT ![Predictor] = Append(@, model_filename)]
    /\ handed' = [handed EXCEPT ![s].linear = Append(@, frame[s].features_df)]
    /\ LET r == ArtifactPredict(linear, frame[s].features_df) IN
         IF r.ok
         THEN /\ frame' = [frame EXCEPT ![s].predicted_price = r.value,
                                        ![s].pc = "l15"]
              /\ UNCHANGED outcome
         ELSE Raises(s, r.error)
    /\ UNCHANGED <<store, pc, traceback, linear, linear_regressor,
                   forest_regressor>>
    /\ OverlapNoted(s)
    /\ UNCHANGED <<widgets, libvars>>

\* Mutant of PredictCall: a failed prediction is attempted a second time.
PredictCallRetries(s) ==
    /\ frame[s].fn = "predict_gld_price" /\ frame[s].pc = "l14"
    /\ LET r == ArtifactPredict(linear, frame[s].features_df) IN
         IF r.ok
         THEN /\ handed' = [handed EXCEPT ![s].linear =
                               Append(@, frame[s].features_df)]
              /\ frame' = [frame EXCEPT ![s].predicted_price = r.value,
                                        ![s].pc = "l15"]
              /\ UNCHANGED outcome
         ELSE /\ handed' = [handed EXCEPT ![s].linear =
                               Append(Append(@, frame[s].features_df),
                                      frame[s].features_df)]
              /\ Raises(s, r.error)
    /\ UNCHANGED <<store, pc, traceback, linear, linear_regressor,
                   forest_regressor>>
    /\ OverlapNoted(s)
    /\ UNCHANGED <<widgets, loads, libvars>>

PredictCall(s) ==
    /\ frame[s].fn = "predict_gld_price" /\ frame[s].pc = "l14"
    /\ handed' = [handed EXCEPT ![s].linear = Append(@, frame[s].features_df)]
    /\ LET r == ArtifactPredict(linear, frame[s].features_df) IN
         IF r.ok
         THEN /\ frame' = [frame EXCEPT ![s].predicted_price = r.value,
                                        ![s].pc = "l15"]
              /\ UNCHANGED outcome
         ELSE Raises(s, r.error)
    /\ UNCHANGED <<store, pc, traceback, linear, linear_regressor,
                   forest_regressor>>
    /\ OverlapNoted(s)
    /\ UNCHANGED <<widgets, loads, libvars>>

\* line 15: return float(predicted_price[0])
PredictResult(predicted_price) == ToFloat(Item0(predicted_price))

\* Mutant of PredictReturn: the function also empties the session's fields.
PredictReturnClearsForm(s) ==
    /\ frame[s].fn = "predict_gld_price" /\ frame[s].pc = "l15"
    /\ Return(s, PredictResult(frame[s].predicted_price))
    /\ widgets' = [widgets EXCEPT ![s] = EmptyForm]
    /\ UNCHANGED <<store, pc, traceback, linear, linear_regressor,
                   forest_regressor, handed>>
    /\ OverlapNoted(s)
    /\ UNCHANGED <<loads, libvars>>

PredictReturn(s) ==
    /\ frame[s].fn = "predict_gld_price" /\ frame[s].pc = "l15"
    /\ Return(s, PredictResult(frame[s].predicted_price))
    /\ UNCHANGED <<store, pc, traceback, linear, linear_regressor,
                   forest_regressor, handed>>
    /\ OverlapNoted(s)
    /\ UNCHANGED <<widgets, loads, libvars>>

(***************************************************************************)
(* Comparaison_app.py: compare_models(SPX, USO, SLV, EURUSD)               *)
(***************************************************************************)
\* Mutant of CompareFeaturesDf: the last column is named after the parameter.
CompareFeaturesDfRenamed(SPX, USO, SLV, EURUSD) ==
    DataFrame(<< <<SPX, USO, SLV, EURUSD>> >>, <<"SPX", "USO", "SLV", "EURUSD">>)

\* line 16
CompareFeaturesDf(SPX, USO, SLV, EURUSD) ==
    DataFrame(<< <<SPX, USO, SLV, EURUSD>> >>, <<"SPX", "USO", "SLV", "EUR/USD">>)

\* Mutant of CompareBuild: features_df is a module-level name, one for all
\* running calls.
CompareBuildShared(s) ==
    /\ frame[s].fn = "compare_models" /\ frame[s].pc = "l16"
    /\ LET a == frame[s].args
           df == CompareFeaturesDf(a[1], a[2], a[3], a[4]) IN
         frame' = [t \in Sessions |->
                     IF t = s
                     THEN [frame[s] EXCEPT !.features_df = df, !.pc = "l19"]
                     ELSE IF frame[t].fn = "compare_models"
                          THEN [frame[t] EXCEPT !.features_df = df]
                          ELSE frame[t]]
    /\ UNCHANGED <<store, pc, traceback, linear, linear_regressor,
                   forest_regressor, outcome, handed>>
    /\ OverlapNoted(s)
    /\ UNCHANGED <<widgets, loads, libvars>>

CompareBuild(s) ==
    /\ frame[s].fn = "compare_models" /\ frame[s].pc = "l16"
    /\ LET a == frame[s].args IN
         frame' = [frame EXCEPT
                     ![s].features_df = CompareFeaturesDf(a[1], a[2], a[3], a[4]),
                     ![s].pc = "l19"]
    /\ UNCHANGED <<store, pc, traceback, linear, linear_regressor,
                   forest_regressor, outcome, handed>>
    /\ OverlapNoted(s)
    /\ UNCHANGED <<widgets, loads, libvars>>

\* Mutant of CompareLinear: the call refits the model it should only read.
CompareLinearRefits(s) ==
    /\ frame[s].fn = "compare_models" /\ frame[s].pc = "l19"
    /\ handed' = [handed EXCEPT ![s].linear = Append(@, frame[s].features_df)]
    /\ linear_regressor' = [linear_regressor EXCEPT !.intercept = 8]
    /\ LET r == ArtifactPredict(linear_regressor, frame[s].features_df) IN
         IF r.ok
         THEN /\ frame' = [frame EXCEPT ![s].linear_predicted_price = r.value,
                                        ![s].pc = "l22"]
              /\ UNCHANGED outcome
         ELSE Raises(s, r.error)
    /\ UNCHANGED <<store, pc, traceback, linear,
                   forest_regressor>>
    /\ OverlapNoted(s)
    /\ UNCHANGED <<widgets, loads, libvars>>

\* line 19: linear_predicted_price = linear_regressor.predict(features_df)
\* Mutant of CompareLinear: a failure of the linear model is put aside and
\* the function goes on to the forest model.
CompareLinearContinues(s) ==
    /\ frame[s].fn = "compare_models" /\ frame[s].pc = "l19"
    /\ handed' = [handed EXCEPT ![s].linear = Append(@, frame[s].features_df)]
    /\ LET r == ArtifactPredict(linear_regressor, frame[s].features_df) IN
         frame' = [frame EXCEPT
                     ![s].linear_predicted_price =
                         IF r.ok THEN r.value ELSE NdArray(<<Float64(0)>>),
                     ![s].pc = "l22"]
    /\ UNCHANGED outcome
    /\ UNCHANGED <<store, pc, traceback, linear, linear_regressor,
                   forest_regressor>>
    /\ OverlapNoted(s)
    /\ UNCHANGED <<widgets, loads, libvars>>

CompareLinear(s) ==
    /\ frame[s].fn = "compare_models" /\ frame[s].pc = "l19"
    /\ handed' = [handed EXCEPT ![s].linear = Append(@, frame[s].features_df)]
    /\ LET r == ArtifactPredict(linear_regressor, frame[s].features_df) IN
         IF r.ok
         THEN /\ frame' = [frame EXCEPT ![s].linear_predicted_price = r.value,
                                        ![s].pc = "l22"]
              /\ UNCHANGED outcome
         ELSE Raises(s, r.error)
    /\ UNCHANGED <<store, pc, traceback, linear, linear_regressor,
                   forest_regressor>>
    /\ OverlapNoted(s)
    /\ UNCHANGED <<widgets, loads, libvars>>

\* Mutant of CompareForest: the forest gets a frame of its own, built with
\* two values in each other's place.
CompareForestRebuilds(s) ==
    /\ frame[s].fn = "compare_models" /\ frame[s].pc = "l22"
    /\ LET a == frame[s].args
           df == CompareFeaturesDf(a[1], a[3], a[2], a[4])
           r == ArtifactPredict(forest_regressor, df) IN
         /\ handed' = [handed EXCEPT ![s].forest = Append(@, df)]
         /\ IF r.ok
            THEN /\ frame' = [frame EXCEPT ![s].forest_predicted_price = r.value,
                                           ![s].pc = "l25"]
                 /\ UNCHANGED outcome
            ELSE Raises(s, r.error)
    /\ UNCHANGED <<store, pc, traceback, linear, linear_regressor,
                   forest_regressor>>
    /\ OverlapNoted(s)
    /\ UNCHANGED <<widgets, loads, libvars>>

\* Mutant of CompareForest: a failed forest prediction is caught and the
\* linear prediction returned beside None.
CompareForestCatches(s) ==
    /\ frame[s].fn = "compare_models" /\ frame[s].pc = "l22"
    /\ handed' = [handed EXCEPT ![s].forest = Append(@, frame[s].features_df)]
    /\ LET r == ArtifactPredict(forest_regressor, frame[s].features_df) IN
         IF r.ok
         THEN /\ frame' = [frame EXCEPT ![s].forest_predicted_price = r.value,
                                        ![s].pc = "l25"]
              /\ UNCHANGED outcome
         ELSE Return(s, Tuple2(ToFloat(Item0(frame[s].linear_predicted_price)),
                               None))
    /\ UNCHANGED <<store, pc, traceback, linear, linear_regressor,
                   forest_regressor>>
    /\ OverlapNoted(s)
    /\ UNCHANGED <<widgets, loads, libvars>>

\* line 22: forest_predicted_price = forest_regressor.predict(features_df)
\* Mutant of CompareForest: the forest model is asked twice for its value.
CompareForestTwice(s) ==
    /\ frame[s].fn = "compare_models" /\ frame[s].pc = "l22"
    /\ handed' = [handed EXCEPT ![s].forest =
                     Append(Append(@, frame[s].features_df), frame[s].features_df)]
    /\ LET r == ArtifactPredict(forest_regressor, frame[s].features_df) IN
         IF r.ok
         THEN /\ frame' = [frame EXCEPT ![s].forest_predicted_price = r.value,
                                        ![s].pc = "l25"]
              /\ UNCHANGED outcome
         ELSE Raises(s, r.error)
    /\ UNCHANGED <<store, pc, traceback, linear, linear_regressor,
                   forest_regressor>>
    /\ OverlapNoted(s)
    /\ UNCHANGED <<widgets, loads, libvars>>

CompareForest(s) ==
    /\ frame[s].fn = "compare_models" /\ frame[s].pc = "l22"
    /\ handed' = [handed EXCEPT ![s].forest = Append(@, frame[s].features_df)]
    /\ LET r == ArtifactPredict(forest_regressor, frame[s].features_df) IN
         IF r.ok
         THEN /\ frame' = [frame EXCEPT ![s].forest_predicted_price = r.value,
                                        ![s].pc = "l25"]
              /\ UNCHANGED outcome
         ELSE Raises(s, r.error)
    /\ UNCHANGED <<store, pc, traceback, linear, linear_regressor,
                   forest_regressor>>
    /\ OverlapNoted(s)
    /\ UNCHANGED <<widgets, loads, libvars>>

\* Mutant of CompareResult: the two predictions in the other order.
CompareResultSwapped(linear_predicted_price, forest_predicted_price) ==
    Tuple2(ToFloat(Item0(forest_predicted_price)),
           ToFloat(Item0(linear_predicted_price)))

\* line 25: return float(linear_predicted_price[0]), float(forest_predicted_price[0])
CompareResult(linear_predicted_price, forest_predicted_price) ==
    Tuple2(ToFloat(Item0(linear_predicted_price)),
           ToFloat(Item0(forest_predicted_price)))

CompareReturn(s) ==
    /\ frame[s].fn = "compare_models" /\ frame[s].pc = "l25"
    /\ Return(s, CompareResult(frame[s].linear_predicted_price,
                               frame[s].forest_predicted_price))
    /\ UNCHANGED <<store, pc, traceback, linear, linear_regressor,
                   forest_regressor, handed>>
    /\ OverlapNoted(s)
    /\ UNCHANGED <<widgets, loads, libvars>>

(***************************************************************************)
(* The system: both scripts, and the sessions that use them.               *)
(***************************************************************************)
Next ==
    \/ PredictorLoad
    \/ PredictorMain
    \/ ComparatorLoadLinear
    \/ ComparatorLoadForest
    \/ ComparatorMain
    \/ \E s \in Sessions, app \in Apps, row \in Inputs : Click(s, app, row)
    \/ \E s \in Sessions : PredictBuild(s)
    \/ \E s \in Sessions : PredictCall(s)
    \/ \E s \in Sessions : PredictReturn(s)
    \/ \E s \in Sessions : CompareBuild(s)
    \/ \E s \in Sessions : CompareLinear(s)
    \/ \E s \in Sessions : CompareForest(s)
    \/ \E s \in Sessions : CompareReturn(s)

Spec == Init /\ [][Next]_vars

(***************************************************************************)
(* gradio/flagging.py: the flagging callbacks SimpleCSVLogger and CSVLogger, *)
(* called one call after the other on one flagging directory.              *)
(***************************************************************************)
MaxFlags == 3

Str(s) == [type |-> "str", v |-> s]

CallbackClasses == {"SimpleCSVLogger", "CSVLogger"}

\* The components a callback is set up with, each given by its label ("" for
\* a component without a label).
ComponentLists == {<<"SPX", "output">>, <<"", "output">>}

\* The samples, the flag options and the user names a call of flag is given.
FlagData == {<<Str("1400"), Str("1421")>>, <<None, Str("=1+1")>>}
FlagOptions == {"", "incorrect"}
Usernames == {None, Str("ann")}

\* The two scripts are not part of a run of the flagging module alone.
AppOff ==
    /\ AppInit
    /\ store = [f \in Filenames |-> Missing]

\* component.flag(sample, flag_dir): the text stored for a sample.
ComponentFlag(sample) == IF sample.type = "NoneType" THEN "" ELSE sample.v

\* utils.simplify_file_data_in_str(data): text that holds no file data is
\* left as it is.
SimplifyFileData(data) == data

\* utils.sanitize_list_for_csv(values): a cell a spreadsheet would read as a
\* formula gets a leading quote.
UnsafeCells == {"=1+1"}
SanitizeListForCsv(values) ==
    [i \in 1..Len(values) |->
        IF values[i] \in UnsafeCells THEN "'" \o values[i] ELSE values[i]]

\* str(datetime.datetime.now()) at a call of flag.
Now == "t" \o ToString(flagged)

\* zip(self.components, flag_data) stops at the shorter of the two.
ZipLen(components, flag_data) ==
    IF Len(components) <= Len(flag_data) THEN Len(components) ELSE Len(flag_data)

\* A version of LineCount that counts the header row as a sample.
LineCountWithHeader(rows) == Len(rows)

\* line_count = len(list(csv.reader(csvfile))) - 1
LineCount(rows) == Len(rows) - 1

\* setup(components, flagging_dir), the same in both classes.
SimpleCSVLogger_setup(components) ==
    /\ callback' = [callback EXCEPT !.state = "ready", !.components = components]
    /\ UNCHANGED <<log_csv, flagged, flag_return>>

CSVLogger_setup(components) ==
    /\ callback' = [callback EXCEPT !.state = "ready", !.components = components]
    /\ UNCHANGED <<log_csv, flagged, flag_return>>

\* SimpleCSVLogger.flag: appends one row of the samples and returns the
\* number of rows of the file less one.
SimpleCSVLogger_flag(flag_data, flag_option, username) ==
    LET csv_data ==
            [i \in 1..ZipLen(callback.components, flag_data) |->
                ComponentFlag(flag_data[i])]
        rows == Append(log_csv.rows, SanitizeListForCsv(csv_data))
    IN /\ log_csv' = [exists |-> TRUE, rows |-> rows]
       /\ flag_return' = LineCount(rows)
       /\ flagged' = flagged + 1
       /\ UNCHANGED callback

\* CSVLogger.flag: writes the header row when log.csv is new, appends one row
\* of the samples, the flag option, the user name and the time, and returns
\* the number of rows of the file less one.
CSVLoggerHeaders(components) ==
    [idx \in 1..Len(components) |->
        IF components[idx] # "" THEN components[idx]
        ELSE "component " \o ToString(idx - 1)]
    \o <<"flag", "username", "timestamp">>

CSVLoggerCsvData(components, flag_data, flag_option, username) ==
    [i \in 1..ZipLen(components, flag_data) |->
        IF flag_data[i].type = "NoneType" THEN ""
        ELSE SimplifyFileData(ComponentFlag(flag_data[i]))]
    \o <<flag_option,
         IF username.type = "NoneType" THEN "" ELSE username.v,
         Now>>

\* with open(log_filepath, "a") ...: the header row when is_new, then the row.
CSVLoggerAppend(file, is_new, headers, csv_data) ==
    [exists |-> TRUE,
     rows |-> file.rows
                \o (IF is_new THEN <<SanitizeListForCsv(headers)>> ELSE <<>>)
                \o <<SanitizeListForCsv(csv_data)>>]

CSVLogger_flag(flag_data, flag_option, username) ==
    LET is_new == ~log_csv.exists
        headers == CSVLoggerHeaders(callback.components)
        csv_data == CSVLoggerCsvData(callback.components, flag_data,
                                     flag_option, username)
        rows == CSVLoggerAppend(log_csv, is_new, headers, csv_data).rows
    IN /\ log_csv' = [exists |-> TRUE, rows |-> rows]
       /\ flag_return' = LineCount(rows)
       /\ flagged' = flagged + 1
       /\ UNCHANGED callback

\* The calls a program makes on a callback it has constructed.
SimpleCSVLoggerSetup(components) ==
    /\ callback.class = "SimpleCSVLogger" /\ callback.state = "constructed"
    /\ SimpleCSVLogger_setup(components)
    /\ UNCHANGED <<appvars, ifacevars, racevars>>

CSVLoggerSetup(components) ==
    /\ callback.class = "CSVLogger" /\ callback.state = "constructed"
    /\ CSVLogger_setup(components)
    /\ UNCHANGED <<appvars, ifacevars, racevars>>

SimpleCSVLoggerFlag(flag_data, flag_option, username) ==
    /\ callback.class = "SimpleCSVLogger" /\ callback.state = "ready"
    /\ flagged < MaxFlags
    /\ SimpleCSVLogger_flag(flag_data, flag_option, username)
    /\ UNCHANGED <<appvars, ifacevars, racevars>>

CSVLoggerFlag(flag_data, flag_option, username) ==
    /\ callback.class = "CSVLogger" /\ callback.state = "ready"
    /\ flagged < MaxFlags
    /\ CSVLogger_flag(flag_data, flag_option, username)
    /\ UNCHANGED <<appvars, ifacevars, racevars>>

InitFlag ==
    /\ AppOff
    /\ IfaceOff
    /\ RaceOff
    /\ callback \in {[class |-> c, state |-> "constructed", components |-> <<>>] :
                        c \in CallbackClasses}
    /\ log_csv = NoFile
    /\ flagged = 0
    /\ flag_return = -1

NextFlag ==
    \/ \E components \in ComponentLists : SimpleCSVLoggerSetup(components)
    \/ \E components \in ComponentLists : CSVLoggerSetup(components)
    \/ \E flag_data \in FlagData, flag_option \in FlagOptions,
          username \in Usernames :
            SimpleCSVLoggerFlag(flag_data, flag_option, username)
    \/ \E flag_data \in FlagData, flag_option \in FlagOptions,
          username \in Usernames :
            CSVLoggerFlag(flag_data, flag_option, username)

SpecFlag == InitFlag /\ [][NextFlag]_vars

(***************************************************************************)
(* gradio/flagging.py: flag methods run by concurrent requests.  A click   *)
(* of a flag button runs FlagMethod.__call__ in a thread of its own        *)
(* (queue=False); the statements of CSVLogger.flag of several threads      *)
(* interleave, with no lock.                                               *)
(***************************************************************************)
\* The flag methods an Interface makes: the one of allow_flagging="auto", and
\* one for each flag button.
Methods ==
    {[label |-> "", value |-> "", visual_feedback |-> FALSE],
     [label |-> "Flag", value |-> "", visual_feedback |-> TRUE],
     [label |-> "Flag as incorrect", value |-> "incorrect",
      visual_feedback |-> TRUE]}

\* What the concurrent requests flag, and the user they come from: the values
\* shown, by a user who is not logged in.
ThreadFlagData == {<<Str("1400"), Str("1421")>>}
ThreadUsernames == {None}

\* gr.Button(value=self.label, interactive=True)
Button(value, interactive) ==
    [type |-> "Button", v |-> value, interactive |-> interactive]

\* A version of FlagMethodResult that shows the button again after a failure.
FlagMethodResultHidesError(method, failed) ==
    IF ~method.visual_feedback THEN None
    ELSE Button(method.label, TRUE)

\* What FlagMethod.__call__ returns after the try statement: "Error!" or
\* nothing when flag raised, the reset button or nothing when it did not.
FlagMethodResult(method, failed) ==
    IF failed /\ method.visual_feedback THEN Str("Error!")
    ELSE IF ~method.visual_feedback THEN None
    ELSE Button(method.label, TRUE)

\* The first line of the callback's flag a call reaches: line 144 of
\* CSVLogger.flag, or, through HuggingFaceDatasetSaver.flag with separate_dirs
\* false, line 323 of _flag_in_dir.
FlagEntry == IF callback.class = "HuggingFaceDatasetSaver" THEN "l323" ELSE "l144"

\* A request calls the flag method: __call__ enters the try statement and
\* calls flagging_callback.flag.
FlagMethodEnter(t, method, flag_data, username) ==
    /\ thread[t].pc = "idle"
    /\ thread' = [thread EXCEPT ![t] =
                    [NoThread EXCEPT !.pc = FlagEntry, !.method = method,
                                     !.flag_data = flag_data,
                                     !.username = username]]
    /\ UNCHANGED <<appvars, flagvars, ifacevars, dataset>>

\* CSVLogger.flag line 144: is_new = not Path(log_filepath).exists()
CSVLoggerIsNew(t) ==
    /\ callback.class = "CSVLogger"
    /\ thread[t].pc = "l144"
    /\ thread' = [thread EXCEPT ![t].is_new = ~log_csv.exists, ![t].pc = "l178"]
    /\ UNCHANGED <<appvars, flagvars, ifacevars, dataset>>

\* CSVLogger.flag lines 178-182: the file is opened for appending and the
\* rows are written; open raises OSError when the file cannot be opened.
CSVLoggerWrite(t, opens) ==
    /\ callback.class = "CSVLogger"
    /\ thread[t].pc = "l178"
    /\ IF opens
       THEN /\ log_csv' =
                 CSVLoggerAppend(log_csv, thread[t].is_new,
                     CSVLoggerHeaders(callback.components),
                     CSVLoggerCsvData(callback.components, thread[t].flag_data,
                                      thread[t].method.value, thread[t].username))
            /\ flagged' = flagged + 1
            /\ thread' = [thread EXCEPT ![t].pc = "l184"]
       ELSE /\ thread' = [thread EXCEPT ![t].result = Raise("OSError"),
                                        ![t].pc = "l488"]
            /\ UNCHANGED <<log_csv, flagged>>
    /\ UNCHANGED <<appvars, callback, flag_return, ifacevars, dataset>>

\* CSVLogger.flag lines 184-186: the rows of the file are counted and the
\* count less one is returned.
CSVLoggerCount(t) ==
    /\ callback.class = "CSVLogger"
    /\ thread[t].pc = "l184"
    /\ flag_return' = LineCount(log_csv.rows)
    /\ thread' = [thread EXCEPT
                    ![t].result = Ok(PyInt(LineCount(log_csv.rows))),
                    ![t].pc = "l492"]
    /\ UNCHANGED <<appvars, callback, log_csv, flagged, ifacevars, dataset>>

\* FlagMethod.__call__ lines 488-495: what flag raised is caught and printed,
\* and the method returns.
FlagMethodReturn(t) ==
    /\ thread[t].pc \in {"l488", "l492"}
    /\ thread' = [thread EXCEPT
                    ![t].returned = FlagMethodResult(thread[t].method,
                                                     ~thread[t].result.ok),
                    ![t].pc = "done"]
    /\ UNCHANGED <<appvars, flagvars, ifacevars, dataset>>

InitThreads ==
    /\ AppOff
    /\ IfaceOff
    /\ RaceOff
    /\ callback \in {[class |-> "CSVLogger", state |-> "ready", components |-> c] :
                        c \in ComponentLists}
    /\ log_csv = NoFile
    /\ flagged = 0
    /\ flag_return = -1

NextThreads ==
    \/ \E t \in Threads, method \in Methods, flag_data \in ThreadFlagData,
          username \in ThreadUsernames :
            FlagMethodEnter(t, method, flag_data, username)
    \/ \E t \in Threads : CSVLoggerIsNew(t)
    \/ \E t \in Threads, opens \in BOOLEAN : CSVLoggerWrite(t, opens)
    \/ \E t \in Threads : CSVLoggerCount(t)
    \/ \E t \in Threads : FlagMethodReturn(t)

SpecThreads == InitThreads /\ [][NextThreads]_vars

(***************************************************************************)
(* HuggingFaceDatasetSaver with separate_dirs false, called by concurrent  *)
(* requests.  filelock.FileLock(path) is exclusive between the threads     *)
(* that enter it: the holder's id is kept in the dataset, 0 when free.     *)
(***************************************************************************)
\* The components the saver is set up with: the label and the preview type
\* (gr.Image, gr.Audio, or neither) of each.
Component(label, preview) == [label |-> label, preview |-> preview]
HubComponentLists ==
    {<<Component("SPX", "None"), Component("output", "None")>>,
     <<Component("photo", "Image"), Component("", "None")>>,
     <<Component("image", "Image"), Component("image", "Image")>>}

\* The samples of a request: a file stored by the first component, and
\* nothing for the second.
HubFlagData == {<<Str("cat.png"), None>>}

\* features[key] = value on an OrderedDict: a key already there keeps its
\* place and gets the value, a new key is added at the end.
DictSet(d, key, value) ==
    IF \E i \in DOMAIN d : d[i].key = key
    THEN [i \in DOMAIN d |->
            IF d[i].key = key THEN [key |-> key, value |-> value] ELSE d[i]]
    ELSE Append(d, [key |-> key, value |-> value])

\* list(features.keys())
Keys(d) == [i \in DOMAIN d |-> d[i].key]

\* huggingface_hub.hf_hub_url(repo_id, filename, repo_type="dataset")
HfHubUrl(filename) == "hub/" \o filename

\* The loop of _deserialize_components over zip(self.components, flag_data),
\* from the i-th pair on.
RECURSIVE DeserializeFrom(_, _, _, _, _)
DeserializeFrom(components, flag_data, i, features, row) ==
    IF i > ZipLen(components, flag_data) THEN [features |-> features, row |-> row]
    ELSE LET component == components[i]
             label == component.label
             deserialized == SimplifyFileData(ComponentFlag(flag_data[i]))
             preview == component.preview # "None"
             features1 == DictSet(features, label, "Value")
             row1 == Append(row, deserialized)
             features2 == IF preview
                          THEN DictSet(features1, label \o " file", component.preview)
                          ELSE features1
             row2 == IF preview
                     THEN Append(row1, IF deserialized # ""
                                       THEN HfHubUrl(deserialized) ELSE "")
                     ELSE row1
         IN  DeserializeFrom(components, flag_data, i + 1, features2, row2)

\* _deserialize_components(data_dir, flag_data, flag_option, username)
DeserializeComponents(components, flag_data, flag_option, username) ==
    LET looped == DeserializeFrom(components, flag_data, 1, <<>>, <<>>) IN
    [features |-> DictSet(DictSet(looped.features, "flag", "Value"),
                          "username", "Value"),
     row |-> looped.row \o <<flag_option, username>>]

\* _flag_in_dir lines 323-325: features, row = self._deserialize_components(...)
\* with username or "" for the user name.
HubDeserialize(t) ==
    /\ callback.class = "HuggingFaceDatasetSaver"
    /\ thread[t].pc = "l323"
    /\ LET d == DeserializeComponents(callback.components, thread[t].flag_data,
                    thread[t].method.value,
                    IF thread[t].username.type = "NoneType" THEN ""
                    ELSE thread[t].username.v)
       IN  thread' = [thread EXCEPT ![t].features = d.features,
                                    ![t].row = d.row, ![t].pc = "l328"]
    /\ UNCHANGED <<appvars, flagvars, ifacevars, dataset>>

\* line 328: with filelock.FileLock(str(self.infos_file) + ".lock"), entered
\* when no other thread holds the lock.
HubInfosLock(t) ==
    /\ thread[t].pc = "l328"
    /\ dataset.infos_lock = 0
    /\ dataset' = [dataset EXCEPT !.infos_lock = t]
    /\ thread' = [thread EXCEPT ![t].pc = "l329"]
    /\ UNCHANGED <<appvars, flagvars, ifacevars>>

\* lines 329-332: the info file is written when it does not exist; when it
\* exists the with statement ends and the lock is released.
HubInfosWrite(t) ==
    /\ thread[t].pc = "l329"
    /\ IF ~dataset.infos_file.exists
       THEN /\ dataset' = [dataset EXCEPT !.infos_file =
                    [exists |-> TRUE, features |-> thread[t].features,
                     writes |-> @.writes + 1]]
            /\ thread' = [thread EXCEPT ![t].pc = "l334"]
       ELSE /\ dataset' = [dataset EXCEPT !.infos_lock = 0]
            /\ thread' = [thread EXCEPT ![t].pc = "l342"]
    /\ UNCHANGED <<appvars, flagvars, ifacevars>>

\* lines 334-340: huggingface_hub.upload_file of the info file, which may raise
\* an HTTP error; the with statement ends either way.
HubUploadFile(t, uploads) ==
    /\ thread[t].pc = "l334"
    /\ IF uploads
       THEN /\ dataset' = [dataset EXCEPT !.upload_file = @ + 1, !.infos_lock = 0]
            /\ thread' = [thread EXCEPT ![t].pc = "l342"]
       ELSE /\ dataset' = [dataset EXCEPT !.infos_lock = 0]
            /\ thread' = [thread EXCEPT ![t].result = Raise("HfHubHTTPError"),
                                        ![t].pc = "l488"]
    /\ UNCHANGED <<appvars, flagvars, ifacevars>>

\* A version of HubDirLock that enters without waiting for the lock.
HubDirLockNoWait(t) ==
    /\ thread[t].pc = "l342"
    /\ dataset' = [dataset EXCEPT !.dir_lock = t]
    /\ thread' = [thread EXCEPT ![t].pc = "l377"]
    /\ UNCHANGED <<appvars, flagvars, ifacevars>>

\* lines 342-345: headers = list(features.keys()); separate_dirs is false:
\* with filelock.FileLock(components_dir / ".lock"), entered when no other
\* thread holds the lock.
HubDirLock(t) ==
    /\ thread[t].pc = "l342"
    /\ dataset.dir_lock = 0
    /\ dataset' = [dataset EXCEPT !.dir_lock = t]
    /\ thread' = [thread EXCEPT ![t].pc = "l377"]
    /\ UNCHANGED <<appvars, flagvars, ifacevars>>

\* _save_as_csv line 377: is_new = not data_file.exists()
HubIsNew(t) ==
    /\ thread[t].pc = "l377"
    /\ thread' = [thread EXCEPT ![t].is_new = ~dataset.data_csv.exists,
                                ![t].pc = "l379"]
    /\ UNCHANGED <<appvars, flagvars, ifacevars, dataset>>

\* _save_as_csv lines 379-387: the headers when is_new, then the row.
HubAppend(t) ==
    /\ thread[t].pc = "l379"
    /\ dataset' = [dataset EXCEPT !.data_csv =
            CSVLoggerAppend(@, thread[t].is_new, Keys(thread[t].features),
                            thread[t].row)]
    /\ thread' = [thread EXCEPT ![t].pc = "l389"]
    /\ UNCHANGED <<appvars, flagvars, ifacevars>>

\* _save_as_csv lines 389-390: return sum(1 for _ in csv.reader(csvfile)) - 1
HubCount(t) ==
    /\ thread[t].pc = "l389"
    /\ thread' = [thread EXCEPT
                    ![t].result = Ok(PyInt(LineCount(dataset.data_csv.rows))),
                    ![t].pc = "l348"]
    /\ UNCHANGED <<appvars, flagvars, ifacevars, dataset>>

\* _flag_in_dir lines 348-356 and 372: huggingface_hub.upload_folder of the
\* directory, which may raise an HTTP error; the with statement ends either
\* way, and sample_nb is returned when it did not raise.
HubUploadFolder(t, uploads) ==
    /\ thread[t].pc = "l348"
    /\ IF uploads
       THEN /\ dataset' = [dataset EXCEPT
                    !.upload_folder = Append(@, dataset.data_csv.rows),
                    !.dir_lock = 0]
            /\ thread' = [thread EXCEPT ![t].pc = "l492"]
       ELSE /\ dataset' = [dataset EXCEPT !.dir_lock = 0]
            /\ thread' = [thread EXCEPT ![t].result = Raise("HfHubHTTPError"),
                                        ![t].pc = "l488"]
    /\ UNCHANGED <<appvars, flagvars, ifacevars>>

\* After setup: the saver holds its components, the local directory has no
\* data.csv, and the info file is there when the repository had one.
InitHub ==
    /\ AppOff
    /\ IfaceOff
    /\ callback \in {[class |-> "HuggingFaceDatasetSaver", state |-> "ready",
                      components |-> c] : c \in HubComponentLists}
    /\ log_csv = NoFile
    /\ flagged = 0
    /\ flag_return = -1
    /\ thread = [t \in Threads |-> NoThread]
    /\ dataset \in {NoDataset,
                    [NoDataset EXCEPT !.infos_file.exists = TRUE]}

NextHub ==
    \/ \E t \in Threads, method \in Methods, flag_data \in HubFlagData,
          username \in ThreadUsernames :
            FlagMethodEnter(t, method, flag_data, username)
    \/ \E t \in Threads : HubDeserialize(t)
    \/ \E t \in Threads : HubInfosLock(t)
    \/ \E t \in Threads : HubInfosWrite(t)
    \/ \E t \in Threads, uploads \in BOOLEAN : HubUploadFile(t, uploads)
    \/ \E t \in Threads : HubDirLock(t)
    \/ \E t \in Threads : HubIsNew(t)
    \/ \E t \in Threads : HubAppend(t)
    \/ \E t \in Threads : HubCount(t)
    \/ \E t \in Threads, uploads \in BOOLEAN : HubUploadFolder(t, uploads)
    \/ \E t \in Threads : FlagMethodReturn(t)

SpecHub == InitHub /\ [][NextHub]_vars

(***************************************************************************)
(* gradio/interface.py: Interface.__init__ builds the page and attaches    *)
(* the events; the user then submits.                                      *)
(***************************************************************************)
MaxRuns == 2

InterfaceTypes == {"STANDARD", "INPUT_ONLY", "OUTPUT_ONLY", "UNIFIED"}
AllowFlagging == {"never", "manual", "auto"}

\* stop_btn: the string "Stop", which makes a button that is not visible, or
\* a gr.Button, which is visible unless it was made otherwise; a stop button
\* is rendered for a generator function in an interface that is not live.
StopBtnParms(l, g) ==
    IF g /\ ~l THEN {[visible |-> FALSE], [visible |-> TRUE]}
    ELSE {[visible |-> FALSE]}

\* The parameters of Interface(...), before __init__ renders anything.
Parameters ==
    UNION {{[NoInterface EXCEPT !.state = "constructing", !.interface_type = t,
                                !.live = l, !.allow_flagging = a,
                                !.generator = g, !.stop_btn_parms = s] :
                s \in StopBtnParms(l, g)} :
            t \in InterfaceTypes, l \in BOOLEAN, a \in AllowFlagging,
            g \in BOOLEAN}

\* self.input_components and self.output_components, by label.
InputComponents(p) == IF p.interface_type = "OUTPUT_ONLY" THEN <<>> ELSE <<"x">>
OutputComponents(p) ==
    IF p.interface_type = "INPUT_ONLY" THEN <<>>
    ELSE IF p.interface_type = "UNIFIED" THEN InputComponents(p)
    ELSE <<"output">>

\* The components flagging_callback.setup is called with; "None" when
\* __init__ does not call it.
SetupComponents(p) ==
    IF p.allow_flagging = "never" THEN "None"
    ELSE IF p.interface_type = "UNIFIED" THEN InputComponents(p)
    ELSE IF p.interface_type = "INPUT_ONLY" THEN "None"
    ELSE InputComponents(p) \o OutputComponents(p)

\* render_input_column: the submit button, the stop button, the flag buttons.
RenderInputColumn(p) ==
    IF p.interface_type \in {"STANDARD", "INPUT_ONLY"}
    THEN [_submit_btn |-> ~p.live,
          _stop_btn |-> ~p.live /\ p.generator,
          flag_btns |-> "None"]
    ELSE [_submit_btn |-> TRUE,
          _stop_btn |-> p.generator /\ ~p.live,
          flag_btns |-> IF p.allow_flagging = "manual" THEN "flag buttons"
                        ELSE IF p.allow_flagging = "auto" THEN "submit button"
                        ELSE "None"]

\* render_output_column(_submit_btn_in)
RenderOutputColumn(p, _submit_btn_in) ==
    LET _submit_btn == _submit_btn_in \/ p.interface_type = "OUTPUT_ONLY" IN
    [_submit_btn |-> _submit_btn,
     _stop_btn |-> p.interface_type = "OUTPUT_ONLY" /\ p.generator /\ ~p.live,
     flag_btns |-> IF p.allow_flagging = "manual" THEN "flag buttons"
                   ELSE IF p.allow_flagging = "auto" /\ _submit_btn
                   THEN "submit button"
                   ELSE "None",
     error |-> IF p.allow_flagging = "auto" /\ ~_submit_btn
               THEN "RenderError" ELSE "none"]

\* The buttons __init__ holds after both columns are rendered.
Render(p) ==
    LET inp == IF p.interface_type \in {"STANDARD", "INPUT_ONLY", "UNIFIED"}
               THEN RenderInputColumn(p)
               ELSE [_submit_btn |-> FALSE, _stop_btn |-> FALSE,
                     flag_btns |-> "None"]
        out == IF p.interface_type \in {"STANDARD", "OUTPUT_ONLY"}
               THEN RenderOutputColumn(p, inp._submit_btn)
               ELSE [_submit_btn |-> FALSE, _stop_btn |-> FALSE,
                     flag_btns |-> "None", error |-> "none"]
    IN [_submit_btn |-> inp._submit_btn \/ out._submit_btn,
        _stop_btn |-> inp._stop_btn \/ out._stop_btn,
        flag_btns |-> IF inp.flag_btns # "None" THEN inp.flag_btns
                      ELSE out.flag_btns,
        error |-> out.error]

\* attach_submit_events: the event it returns: the run of fn on a click of
\* the submit button, the cleanup step that follows that run when there is a
\* stop button, or the run of fn on a change of an input.
AttachSubmitEvents(p, _submit_btn, _stop_btn) ==
    IF p.live
    THEN IF p.interface_type = "OUTPUT_ONLY"
         THEN IF ~_submit_btn THEN "RenderError" ELSE "submit"
         ELSE "change"
    ELSE IF ~_submit_btn THEN "RenderError"
         ELSE IF _stop_btn THEN "cleanup"
         ELSE "submit"

\* attach_flagging_events: whether _submit_event.success(flag_method, ...) is
\* attached.
AttachFlaggingEvents(p, flag_btns) ==
    IF ~(flag_btns # "None"
         /\ p.interface_type \in {"STANDARD", "OUTPUT_ONLY", "UNIFIED"})
    THEN FALSE
    ELSE p.allow_flagging = "auto"

\* flagging_callback.setup(components, flagging_dir), of either class.
FlaggingCallbackSetup(components) ==
    IF callback.class = "CSVLogger" THEN CSVLogger_setup(components)
    ELSE SimpleCSVLogger_setup(components)

\* FlagMethod.__call__: calls flagging_callback.flag and catches what it
\* raises; a callback that was never set up raises.
FlagMethodCall(flag_data, value, username) ==
    IF callback.state # "ready" THEN UNCHANGED flagvars
    ELSE IF callback.class = "CSVLogger"
         THEN CSVLogger_flag(flag_data, value, username)
         ELSE SimpleCSVLogger_flag(flag_data, value, username)

\* Interface.__init__, from the call of flagging_callback.setup to the end.
InterfaceInit ==
    /\ interface.state = "constructing"
    /\ IF SetupComponents(interface) = "None" THEN UNCHANGED flagvars
       ELSE FlaggingCallbackSetup(SetupComponents(interface))
    /\ LET r == Render(interface)
           e == AttachSubmitEvents(interface, r._submit_btn, r._stop_btn)
       IN /\ interface' =
               IF r.error # "none" \/ e = "RenderError"
               THEN [interface EXCEPT !.state = "RenderError"]
               ELSE [interface EXCEPT
                       !.state = "rendered",
                       !._submit_btn = r._submit_btn,
                       !._stop_btn = r._stop_btn,
                       !.flag_btns = r.flag_btns,
                       !._submit_event = e,
                       !.auto_flag = AttachFlaggingEvents(interface, r.flag_btns)]
          /\ submit' =
               IF r.error # "none" \/ e = "RenderError" \/ ~r._stop_btn
               THEN submit
               ELSE [submit EXCEPT !._stop_btn = interface.stop_btn_parms]
    /\ UNCHANGED <<appvars, racevars>>

\* A version of cleanup that leaves the stop button visible.
cleanupKeepsStop == [_submit_btn |-> [visible |-> TRUE],
                     _stop_btn |-> [visible |-> TRUE]]

\* def cleanup(): return [Button(visible=True), Button(visible=False)]
cleanup == [_submit_btn |-> [visible |-> TRUE],
            _stop_btn |-> [visible |-> FALSE]]

\* lambda: (Button(visible=False), Button(visible=True)), the first step of
\* predict_event.
lambda == [_submit_btn |-> [visible |-> FALSE],
           _stop_btn |-> [visible |-> TRUE]]

\* outputs=[_submit_btn, _stop_btn]: the page takes both buttons from what
\* the handler returned; these handlers are attached only when there is a
\* stop button.
WithButtons(page, returned) ==
    IF interface._stop_btn
    THEN [page EXCEPT !._submit_btn = returned._submit_btn,
                      !._stop_btn = returned._stop_btn]
    ELSE page

\* The events a click of the submit button triggers.
SubmitTriggered == {"submit", "cleanup"}

\* The user fills the inputs and clicks the submit button, which is visible;
\* with a stop button the first step of predict_event swaps the buttons, then
\* fn runs.
SubmitClick(x) ==
    /\ interface.state = "rendered"
    /\ interface._submit_btn
    /\ interface._submit_event \in SubmitTriggered
    /\ submit.pc = "idle"
    /\ submit._submit_btn.visible
    /\ submit.runs < MaxRuns
    /\ submit' = WithButtons(
                    [submit EXCEPT !.pc = "running", !.runs = @ + 1,
                                   !.inputs = [i \in 1..Len(InputComponents(interface)) |-> x],
                                   !.outputs = <<>>],
                    lambda)
    /\ UNCHANGED <<appvars, flagvars, interface, racevars>>

\* self.fn returns y: the outputs show it.
FnReturns(y) ==
    /\ submit.pc = "running"
    /\ submit' = [submit EXCEPT
                    !.pc = "succeeded", !.succeeded = @ + 1,
                    !.outputs = [i \in 1..Len(OutputComponents(interface)) |-> y],
                    !.inputs = IF interface.interface_type = "UNIFIED"
                               THEN [i \in 1..Len(InputComponents(interface)) |-> y]
                               ELSE @]
    /\ UNCHANGED <<appvars, flagvars, interface, racevars>>

\* self.fn raises.
FnRaises ==
    /\ submit.pc = "running"
    /\ submit' = [submit EXCEPT !.pc = "failed"]
    /\ UNCHANGED <<appvars, flagvars, interface, racevars>>

\* Whether the event the flag method is attached to has completed with
\* success: the run of fn itself, or the cleanup step, which follows the run
\* whatever its end.
SubmitEventSucceeded ==
    IF interface._submit_event = "cleanup"
    THEN submit.pc \in {"succeeded", "failed"}
    ELSE submit.pc = "succeeded"

\* _submit_event.success(flag_method, inputs=input_components +
\* output_components): the flag method runs on the values shown.
AutoFlag(username) ==
    /\ interface.auto_flag
    /\ SubmitEventSucceeded
    /\ FlagMethodCall(submit.inputs \o submit.outputs, "", username)
    /\ submit' = WithButtons([submit EXCEPT !.pc = "idle"], cleanup)
    /\ UNCHANGED <<appvars, interface, racevars>>

\* No flag method is attached to the end of the run; with a stop button the
\* cleanup step follows the run whatever its end.
RunEnds ==
    /\ submit.pc \in {"succeeded", "failed"}
    /\ ~(interface.auto_flag /\ SubmitEventSucceeded)
    /\ submit' = WithButtons([submit EXCEPT !.pc = "idle"], cleanup)
    /\ UNCHANGED <<appvars, flagvars, interface, racevars>>

\* _stop_btn.click(cleanup, outputs=[_submit_btn, _stop_btn],
\* cancels=predict_event): a click of the visible stop button runs cleanup and
\* cancels the run of fn; a run that is cancelled triggers nothing further,
\* a run that had ended already is followed by its own cleanup step.
StopClick ==
    /\ interface.state = "rendered"
    /\ interface._stop_btn
    /\ submit._stop_btn.visible
    /\ submit' = WithButtons(
                    [submit EXCEPT !.pc = IF @ = "running" THEN "idle" ELSE @],
                    cleanup)
    /\ UNCHANGED <<appvars, flagvars, interface, racevars>>

InitInterface ==
    /\ AppOff
    /\ RaceOff
    /\ interface \in Parameters
    /\ submit = NoSubmit
    /\ callback \in {[class |-> c, state |-> "constructed", components |-> <<>>] :
                        c \in CallbackClasses}
    /\ log_csv = NoFile
    /\ flagged = 0
    /\ flag_return = -1

NextInterface ==
    \/ InterfaceInit
    \/ \E x \in {Str("1400"), None} : SubmitClick(x)
    \/ \E y \in {Str("1421")} : FnReturns(y)
    \/ FnRaises
    \/ \E username \in Usernames : AutoFlag(username)
    \/ RunEnds
    \/ StopClick

SpecInterface == InitInterface /\ [][NextInterface]_vars

(***************************************************************************)
(* Properties.                                                             *)
(***************************************************************************)
\* The function and the arguments of a session's running or last call.
CallFn(s) == IF InFlight(s) THEN frame[s].fn ELSE outcome[s].fn
CallArgs(s) == IF InFlight(s) THEN frame[s].args ELSE outcome[s].args

Done(s) == outcome[s].kind # "none"
Returned(s, fn) == outcome[s].kind = "returned" /\ outcome[s].fn = fn
Raised(s, fn) == outcome[s].kind = "raised" /\ outcome[s].fn = fn

\* What the model stored under a file name predicts for four finite values.
FilePrediction(path, args) == Float(Regress(store[path], args))

\* C1: in every call of compare_models the frame handed to the forest model
\* is the frame handed to the linear model: one single row, holding the four
\* argument values of the call under four column names.
C1_SameFrameToBothModels ==
    \A s \in Sessions :
        CallFn(s) = "compare_models" =>
            /\ Len(handed[s].linear) <= 1 /\ Len(handed[s].forest) <= 1
            /\ \A i \in 1..Len(handed[s].linear) :
                   /\ handed[s].linear[i].data = <<CallArgs(s)>>
                   /\ Len(handed[s].linear[i].columns) = 4
            /\ \A i \in 1..Len(handed[s].forest) :
                   /\ Len(handed[s].linear) = 1
                   /\ handed[s].forest[i] = handed[s].linear[1]

C1_Witness ==
    \E s \in Sessions :
        /\ Returned(s, "compare_models")
        /\ outcome[s].args = SampleRow
        /\ Len(handed[s].linear) = 1 /\ Len(handed[s].forest) = 1

\* C2: every compare_models call that returns gives a pair whose first
\* element is the prediction of the model stored in the linear file and whose
\* second element is the prediction of the model stored in the forest file,
\* for the arguments of that call, whatever calls came before.
C2_CompareOrderFixed ==
    \A s \in Sessions :
        Returned(s, "compare_models") =>
            /\ outcome[s].value.type = "tuple"
            /\ Len(outcome[s].value.items) = 2
            /\ outcome[s].value.items[1] =
                   FilePrediction(linear_model_filename, outcome[s].args)
            /\ outcome[s].value.items[2] =
                   FilePrediction(forest_model_filename, outcome[s].args)

C2_Witness ==
    \E s, t \in Sessions :
        /\ s # t
        /\ Done(t)
        /\ Returned(s, "compare_models")
        /\ outcome[s].value.items[1] # outcome[s].value.items[2]

\* C3: a predict_gld_price call and a compare_models call that both return
\* for the same four arguments agree: the value of the first is element 0 of
\* the pair of the second.
C3_PredictEqualsCompareFirst ==
    \A s, t \in Sessions :
        (/\ Returned(s, "predict_gld_price")
         /\ Returned(t, "compare_models")
         /\ outcome[s].args = outcome[t].args)
        => outcome[s].value = outcome[t].value.items[1]

C3_Witness ==
    \E s, t \in Sessions :
        /\ Returned(s, "predict_gld_price")
        /\ Returned(t, "compare_models")
        /\ outcome[s].args = SampleRow
        /\ outcome[t].args = SampleRow

\* C4: two finished calls of the same function with the same arguments have
\* the same outcome (the same value, or the same error), whatever calls ran
\* in between.
C4_SameInputsSameOutcome ==
    \A s, t \in Sessions :
        (/\ Done(s) /\ Done(t)
         /\ outcome[s].fn = outcome[t].fn
         /\ outcome[s].args = outcome[t].args)
        => outcome[s] = outcome[t]

C4_Witness ==
    \E s, t \in Sessions :
        /\ s # t
        /\ Returned(s, "predict_gld_price")
        /\ Returned(t, "predict_gld_price")
        /\ outcome[s].args = outcome[t].args

\* The prediction calls a session's call has made so far, as the results the
\* loaded artifacts give for the frames they were handed.
LinearCalls(s) ==
    [i \in 1..Len(handed[s].linear) |->
        ArtifactPredict(IF CallFn(s) = "predict_gld_price"
                        THEN linear ELSE linear_regressor,
                        handed[s].linear[i])]
ForestCalls(s) ==
    [i \in 1..Len(handed[s].forest) |->
        ArtifactPredict(forest_regressor, handed[s].forest[i])]
SomeCallFailed(s) ==
    \/ \E i \in 1..Len(handed[s].linear) : ~LinearCalls(s)[i].ok
    \/ \E i \in 1..Len(handed[s].forest) : ~ForestCalls(s)[i].ok

\* C5: compare_models gives no partial result: a call in which the prediction
\* of either model failed ends raised and carries no value, and a call that
\* returned carries both elements, each a float.
C5_CompareNoPartialResult ==
    \A s \in Sessions :
        CallFn(s) = "compare_models" =>
            /\ SomeCallFailed(s) => Raised(s, "compare_models")
            /\ Raised(s, "compare_models") => outcome[s].value = None
            /\ Returned(s, "compare_models") =>
                   /\ Len(handed[s].linear) = 1 /\ Len(handed[s].forest) = 1
                   /\ outcome[s].value.type = "tuple"
                   /\ \A i \in 1..2 : outcome[s].value.items[i].type = "float"

C5_Witness ==
    \E s \in Sessions :
        /\ Raised(s, "compare_models")
        /\ Len(handed[s].forest) = 1
        /\ LinearCalls(s)[1].ok
        /\ ~ForestCalls(s)[1].ok

\* The files a script loads at module level, and whether it takes requests.
Required(app) ==
    IF app = Predictor THEN {model_filename}
    ELSE {linear_model_filename, forest_model_filename}
LoadErrors(app) ==
    {JoblibLoad(store, f).error : f \in {g \in Required(app) : ~JoblibLoad(store, g).ok}}
Accepting(app) ==
    \/ pc[app] = "serving"
    \/ \E s \in Sessions : CallFn(s) = Fn(app)

\* C6: a script whose load of a required artifact fails never launches and
\* never runs a call: it can only be before the failing load or ended by the
\* load's error.  A script that takes requests has every one of its artifacts
\* loaded.
C6_NoRequestBeforeAllLoaded ==
    /\ \A app \in Apps :
           /\ LoadErrors(app) # {} =>
                  /\ ~Accepting(app)
                  /\ pc[app] \in {"l7", "l8", "l9", "crashed"}
           /\ pc[app] = "crashed" => traceback[app] \in LoadErrors(app)
    /\ ~JoblibLoad(store, linear_model_filename).ok
           => pc[Comparator] \in {"l8", "crashed"}
    /\ Accepting(Predictor) => linear = store[model_filename] /\ IsArtifact(linear)
    /\ Accepting(Comparator) =>
           /\ linear_regressor = store[linear_model_filename]
           /\ forest_regressor = store[forest_model_filename]
           /\ IsArtifact(linear_regressor) /\ IsArtifact(forest_regressor)

C6_Witness ==
    /\ pc[Comparator] = "crashed"
    /\ IsArtifact(linear_regressor)
    /\ ~IsArtifact(forest_regressor)
    /\ traceback[Comparator] = "FileNotFoundError"
    /\ pc[Predictor] = "serving"

\* The errors of the prediction calls that failed in a session's call.
FailedErrors(s) ==
    {LinearCalls(s)[i].error : i \in {j \in 1..Len(handed[s].linear) : ~LinearCalls(s)[j].ok}}
    \cup
    {ForestCalls(s)[i].error : i \in {j \in 1..Len(handed[s].forest) : ~ForestCalls(s)[j].ok}}

\* C7: in predict_gld_price and in compare_models, a prediction call that
\* fails ends the call raised with that call's error and without a value; a
\* call that returned a value had no failed prediction call, and a call ends
\* raised only by the error of a prediction call.
C7_FailureSurfaced ==
    \A s \in Sessions :
        /\ FailedErrors(s) # {} =>
               /\ outcome[s].kind = "raised"
               /\ outcome[s].error \in FailedErrors(s)
               /\ outcome[s].value = None
        /\ outcome[s].kind = "raised" => outcome[s].error \in FailedErrors(s)

C7_Witness ==
    \E s, t \in Sessions :
        /\ Raised(s, "predict_gld_price")
        /\ outcome[s].error = "PredictionError"
        /\ Raised(t, "compare_models")
        /\ outcome[t].error = "FeatureMismatchError"

\* What a call gives when it runs alone, from its first statement to its
\* last, against the artifacts of the files.
Outcome(kind, fn, args, value, error) ==
    [kind |-> kind, fn |-> fn, args |-> args, value |-> value, error |-> error]
RunAlone(fn, args) ==
    IF fn = "predict_gld_price"
    THEN LET df == PredictFeaturesDf(args[1], args[2], args[3], args[4])
             r == ArtifactPredict(store[model_filename], df) IN
           IF r.ok
           THEN Outcome("returned", fn, args, PredictResult(r.value), "none")
           ELSE Outcome("raised", fn, args, None, r.error)
    ELSE LET df == CompareFeaturesDf(args[1], args[2], args[3], args[4])
             l == ArtifactPredict(store[linear_model_filename], df)
             f == ArtifactPredict(store[forest_model_filename], df) IN
           IF ~l.ok THEN Outcome("raised", fn, args, None, l.error)
           ELSE IF ~f.ok THEN Outcome("raised", fn, args, None, f.error)
           ELSE Outcome("returned", fn, args, CompareResult(l.value, f.value), "none")

\* C8: a call that ends while a call of another session runs on the same
\* script, with no lock, ends exactly as it would have ended alone on its own
\* arguments.
C8_ConcurrentAsAlone ==
    \A s \in Sessions :
        (Done(s) /\ overlapped[s])
        => outcome[s] = RunAlone(outcome[s].fn, outcome[s].args)

C8_Witness ==
    \E s, t \in Sessions :
        /\ s # t
        /\ Returned(s, "compare_models")
        /\ overlapped[s]
        /\ frame[t].fn = "compare_models"
        /\ frame[t].pc \in {"l19", "l22", "l25"}
        /\ frame[t].args # outcome[s].args

\* The artifacts a function reads.
ArtifactsOf(fn) ==
    IF fn = "predict_gld_price" THEN {linear}
    ELSE {linear_regressor, forest_regressor}

\* C9: with well-formed artifacts, a finished call on four finite numbers,
\* the all-zero input included, has not raised: predict_gld_price returned
\* one float, compare_models a pair of floats.
C9_FiniteInputsNeverRaise ==
    \A s \in Sessions :
        (/\ Done(s)
         /\ Finite(outcome[s].args)
         /\ \A m \in ArtifactsOf(outcome[s].fn) : WellFormed(m))
        => /\ outcome[s].kind = "returned"
           /\ outcome[s].fn = "predict_gld_price" => outcome[s].value.type = "float"
           /\ outcome[s].fn = "compare_models" =>
                  /\ outcome[s].value.type = "tuple"
                  /\ Len(outcome[s].value.items) = 2
                  /\ \A i \in 1..2 : outcome[s].value.items[i].type = "float"

C9_Witness ==
    \E s, t \in Sessions :
        /\ Returned(s, "predict_gld_price") /\ outcome[s].args = ZeroRow
        /\ Returned(t, "compare_models") /\ outcome[t].args = ZeroRow

\* C10: once a script has bound a module-level name to its artifact, no step
\* changes the artifact or binds the name again.
C10_ArtifactsReadOnly ==
    [][/\ pc[Predictor] \in {"l39", "serving"} => linear' = linear
       /\ pc[Comparator] \in {"l9", "l56", "serving"}
              => linear_regressor' = linear_regressor
       /\ pc[Comparator] \in {"l56", "serving"}
              => forest_regressor' = forest_regressor]_vars

C10_Witness ==
    \E s, t \in Sessions :
        /\ Returned(s, "predict_gld_price")
        /\ Returned(t, "compare_models")
        /\ linear = store[model_filename]
        /\ linear_regressor = store[linear_model_filename]
        /\ forest_regressor = store[forest_model_filename]

\* A step of the predict_gld_price call of session s.
PredictStep(s) == frame[s].fn = "predict_gld_price" /\ frame'[s] # frame[s]

\* C11: a step of predict_gld_price changes nothing but the call's own frame
\* and result: no module-level name, no file, no field of the form, nothing of
\* another session.  The call hands a frame to the linear artifact at most
\* once and to no other artifact, and a call that returns gives one float,
\* after exactly one prediction.
C11_PredictOneScalarNoSideEffect ==
    [][\A s \in Sessions :
          PredictStep(s) =>
              /\ UNCHANGED <<store, pc, traceback, linear, linear_regressor,
                             forest_regressor, loads, widgets>>
              /\ \A t \in Sessions \ {s} :
                     /\ frame'[t] = frame[t]
                     /\ outcome'[t] = outcome[t]
                     /\ handed'[t] = handed[t]
                     /\ overlapped'[t] = overlapped[t]
              /\ Len(handed'[s].linear) <= 1
              /\ handed'[s].forest = <<>>
              /\ outcome'[s].kind = "returned" =>
                     /\ outcome'[s].value.type = "float"
                     /\ Len(handed'[s].linear) = 1]_vars

C11_Witness ==
    \E s \in Sessions :
        /\ Returned(s, "predict_gld_price")
        /\ outcome[s].value.type = "float"
        /\ Len(handed[s].linear) = 1
        /\ widgets[s] = Entered(SampleRow)

\* The frames the artifacts were handed in a session's running or last call.
HandedFrames(s) ==
    {handed[s].linear[i] : i \in 1..Len(handed[s].linear)}
    \cup {handed[s].forest[i] : i \in 1..Len(handed[s].forest)}

\* C12, as stated: every frame handed to an artifact has one row of four
\* fields under the names SPX, USO, SLV, EURUSD, in this order.
C12_Original ==
    \A s \in Sessions : \A df \in HandedFrames(s) :
        /\ df.columns = <<"SPX", "USO", "SLV", "EURUSD">>
        /\ Len(df.data) = 1 /\ Len(df.data[1]) = 4

\* C12, amended: every frame handed to an artifact, in both scripts, has one
\* row of four fields under the names SPX, USO, SLV, EUR/USD, in this order.
C12_FourFieldsFixedNames ==
    \A s \in Sessions : \A df \in HandedFrames(s) :
        /\ df.columns = <<"SPX", "USO", "SLV", "EUR/USD">>
        /\ Len(df.data) = 1 /\ Len(df.data[1]) = 4

C12_Witness ==
    \E s, t \in Sessions :
        /\ CallFn(s) = "predict_gld_price" /\ Len(handed[s].linear) = 1
        /\ CallFn(t) = "compare_models" /\ Len(handed[t].forest) = 1

\* C13: every frame handed to an artifact holds four fields, each a finite
\* number, whatever the session entered in the form, an empty field included.
C13_FieldsNumericFinite ==
    \A s \in Sessions : \A df \in HandedFrames(s) :
        /\ Len(df.data) = 1 /\ Len(df.data[1]) = 4
        /\ Finite(df.data[1])

\* C15: the four widget values, each as its widget hands it over, are the
\* call's arguments in the order SPX, USO, SLV, EURUSD (the i-th argument
\* comes from the i-th field and from no other: it is empty when that field
\* is empty and lies within half a hundredth of that field's value
\* otherwise), and each returned value is shown in its own output
\* widget: the predictor's output shows the prediction of the file's model for
\* the entered values; the comparator's linear output shows element 0, the
\* linear model's prediction, and its forest output element 1, the forest
\* model's prediction.
C15_PositionalBinding ==
    \A s \in Sessions :
        /\ CallFn(s) # "none" =>
              LET w == <<widgets[s].SPX, widgets[s].USO,
                         widgets[s].SLV, widgets[s].EURUSD>>
              IN /\ Len(CallArgs(s)) = 4
                 /\ \A i \in 1..4 :
                       IF w[i].type = "NoneType" THEN CallArgs(s)[i] = None
                       ELSE /\ CallArgs(s)[i].type = "float"
                            /\ CallArgs(s)[i].v - w[i].v \in -50..50
        /\ Returned(s, "predict_gld_price") =>
              PredictorOutputs(outcome[s].value).output_label
                  = FilePrediction(model_filename, CallArgs(s))
        /\ Returned(s, "compare_models") =>
              LET shown == ComparatorOutputs(outcome[s].value)
              IN /\ shown.output_linear = outcome[s].value.items[1]
                 /\ shown.output_forest = outcome[s].value.items[2]
                 /\ shown.output_linear
                      = FilePrediction(linear_model_filename, CallArgs(s))
                 /\ shown.output_forest
                      = FilePrediction(forest_model_filename, CallArgs(s))

C15_Witness ==
    \E s, t \in Sessions :
        /\ Returned(s, "compare_models") /\ widgets[s] = Entered(SampleRow)
        /\ ComparatorOutputs(outcome[s].value).output_linear
             # ComparatorOutputs(outcome[s].value).output_forest
        /\ Returned(t, "predict_gld_price") /\ widgets[t] = Entered(SampleRow)

\* C16: within one call each artifact's prediction is attempted at most once,
\* and a failed attempt ends the call: the call is over, its one outcome is the
\* error of the attempt that failed, and nothing is attempted after it.
C16_FailedCallNotRetried ==
    \A s \in Sessions :
        /\ Len(handed[s].linear) <= 1 /\ Len(handed[s].forest) <= 1
        /\ SomeCallFailed(s) =>
              /\ ~InFlight(s)
              /\ outcome[s].kind = "raised"
              /\ IF ~LinearCalls(s)[1].ok
                 THEN /\ outcome[s].error = LinearCalls(s)[1].error
                      /\ handed[s].forest = <<>>
                 ELSE outcome[s].error = ForestCalls(s)[1].error

C16_Witness ==
    \E s, t \in Sessions :
        /\ Raised(s, "predict_gld_price")
        /\ Len(handed[s].linear) = 1 /\ ~LinearCalls(s)[1].ok
        /\ Raised(t, "compare_models")
        /\ Len(handed[t].forest) = 1 /\ ~ForestCalls(t)[1].ok

\* The files a script loads, in the order of its module-level statements.
LoadOrder(app) ==
    IF app = Predictor THEN <<model_filename>>
    ELSE <<linear_model_filename, forest_model_filename>>

\* C17: each script loads each of its artifacts once, at module level, before
\* it takes its first call: its loads are always a beginning of its list of
\* load statements, and from the moment it takes calls, during them and
\* between them, its loads are exactly that list.
C17_LoadedOnceBeforeCalls ==
    \A app \in Apps :
        /\ Len(loads[app]) <= Len(LoadOrder(app))
        /\ \A i \in 1..Len(loads[app]) : loads[app][i] = LoadOrder(app)[i]
        /\ Accepting(app) => loads[app] = LoadOrder(app)

C17_Witness ==
    /\ \E s, t \in Sessions :
          /\ s # t
          /\ Returned(s, "compare_models") /\ InFlight(t)
          /\ frame[t].fn = "compare_models"
    /\ loads[Comparator] = LoadOrder(Comparator)
    /\ loads[Predictor] = LoadOrder(Predictor)
    /\ pc[Predictor] = "serving"

\* C18: starting from a flagging directory without log.csv, the k-th call of
\* CSVLogger.flag returns k, and log.csv then holds the header row, made of
\* the components' labels and flag, username, timestamp, followed by k rows
\* of samples.
C18_CsvLoggerReturnsTotal ==
    (callback.class = "CSVLogger" /\ flagged >= 1) =>
        /\ flag_return = flagged
        /\ log_csv.exists
        /\ Len(log_csv.rows) = flagged + 1
        /\ Len(log_csv.rows[1]) = Len(callback.components) + 3
        /\ \A i \in 1..Len(callback.components) :
              log_csv.rows[1][i] \in {callback.components[i],
                                      "component " \o ToString(i - 1)}
        /\ SubSeq(log_csv.rows[1], Len(callback.components) + 1,
                  Len(callback.components) + 3)
             = <<"flag", "username", "timestamp">>
        /\ \A k \in 1..flagged :
              /\ Len(log_csv.rows[k + 1]) = Len(callback.components) + 3
              /\ log_csv.rows[k + 1][Len(callback.components) + 1] \in FlagOptions

C18_Witness ==
    /\ callback.class = "CSVLogger"
    /\ callback.components = <<"", "output">>
    /\ flagged = 2 /\ flag_return = 2
    /\ log_csv.rows[1] = <<"component 0", "output", "flag", "username", "timestamp">>
    /\ log_csv.rows[3] = <<"", "'=1+1", "incorrect", "ann", "t1">>

\* C19: starting from a flagging directory without log.csv, the k-th call of
\* SimpleCSVLogger.flag returns k.
C19_SimpleCsvLoggerReturnsTotal ==
    (callback.class = "SimpleCSVLogger" /\ flagged >= 1) => flag_return = flagged

\* C20: in an Interface built with allow_flagging = "auto" that has a submit
\* action, every run the submit button started and that produced its output
\* has been followed by a call of the callback's flag.
C20_AutoFlagsEverySubmit ==
    (/\ interface.state = "rendered"
     /\ interface.allow_flagging = "auto"
     /\ interface._submit_btn /\ interface._submit_event \in SubmitTriggered
     /\ submit.pc = "idle") =>
        flagged >= submit.succeeded

\* The script whose button runs fn.
AppOf(fn) == IF fn = "predict_gld_price" THEN Predictor ELSE Comparator

\* C21: no call leaves a script in a terminal or degraded state.  A script
\* that has run a call, a failed one included, is still serving; a session
\* with no call in flight can start a further call on it with any input; and
\* every finished call, whatever calls came before it, ended exactly as a
\* first call on its arguments ends.
C21_NoDegradedState ==
    /\ \A s \in Sessions :
          /\ CallFn(s) # "none" => pc[AppOf(CallFn(s))] = "serving"
          /\ Done(s) => outcome[s] = RunAlone(outcome[s].fn, outcome[s].args)
    /\ \A app \in Apps, s \in Sessions :
          (pc[app] = "serving" /\ ~InFlight(s)) =>
              \A row \in Inputs : ENABLED Click(s, app, row)

\* A call about to return its prediction, started after a call of another
\* session on the same script had failed.
C21_Witness ==
    \E s, t \in Sessions :
        /\ s # t
        /\ Raised(t, "predict_gld_price") /\ ~overlapped[t]
        /\ outcome[t].error = "PredictionError"
        /\ frame[s].fn = "predict_gld_price" /\ frame[s].pc = "l15"
        /\ ~overlapped[s]
        /\ Len(handed[s].linear) = 1 /\ LinearCalls(s)[1].ok

\* C22: the one row of every frame handed to an artifact is the four
\* arguments of the call as they were given, the i-th argument under the i-th
\* of the names SPX, USO, SLV, EUR/USD; no argument is checked first, so every
\* finished call, one with an empty field included, has handed its frame to
\* the linear artifact.
C22_RowIsArgumentsUnvalidated ==
    \A s \in Sessions :
        /\ \A df \in HandedFrames(s) :
              /\ Len(df.data) = 1
              /\ \A i \in 1..4 : df.data[1][i] = CallArgs(s)[i]
              /\ df.columns[1] = "SPX" /\ df.columns[2] = "USO"
              /\ df.columns[3] = "SLV" /\ df.columns[4] = "EUR/USD"
        /\ Done(s) => Len(handed[s].linear) = 1

C22_Witness ==
    \E s, t \in Sessions :
        /\ Done(s) /\ outcome[s].fn = "predict_gld_price"
        /\ outcome[s].args = EmptyFieldRow
        /\ Len(handed[s].linear) = 1
        /\ handed[s].linear[1].data[1][2] = None
        /\ Done(t) /\ outcome[t].fn = "compare_models"
        /\ outcome[t].args = SampleRow
        /\ Len(handed[t].forest) = 1
        /\ handed[t].forest[1].data = <<SampleRow>>

\* C23: compare_models calls the linear model first and the forest model
\* after it: before the linear call nothing is handed to either model; the
\* forest model is handed the frame only when the linear call has completed
\* with its result; a failed linear call ends the call with the linear
\* model's error and the forest model is not called.
C23_LinearThenForest ==
    \A s \in Sessions :
        CallFn(s) = "compare_models" =>
            /\ frame[s].pc \in {"l16", "l19"} =>
                  handed[s].linear = <<>> /\ handed[s].forest = <<>>
            /\ frame[s].pc = "l22" =>
                  /\ Len(handed[s].linear) = 1 /\ handed[s].forest = <<>>
                  /\ LinearCalls(s)[1].ok
                  /\ frame[s].linear_predicted_price = LinearCalls(s)[1].value
            /\ handed[s].forest # <<>> =>
                  /\ Len(handed[s].linear) = 1
                  /\ LinearCalls(s)[1].ok
            /\ (Len(handed[s].linear) = 1 /\ ~LinearCalls(s)[1].ok) =>
                  /\ handed[s].forest = <<>>
                  /\ Raised(s, "compare_models")
                  /\ outcome[s].error = LinearCalls(s)[1].error

C23_Witness ==
    \E s, t \in Sessions :
        /\ Raised(s, "compare_models")
        /\ Len(handed[s].linear) = 1 /\ ~LinearCalls(s)[1].ok
        /\ handed[s].forest = <<>>
        /\ frame[t].fn = "compare_models" /\ frame[t].pc = "l22"

\* C24: a call of predict_gld_price that returned has asked the linear
\* artifact for a prediction exactly once and the forest artifact never; a
\* call of compare_models that returned has asked each of the two artifacts
\* exactly once; no call, finished or not, has asked an artifact twice.
C24_OnePredictionPerArtifact ==
    \A s \in Sessions :
        /\ Returned(s, "predict_gld_price") =>
              Len(handed[s].linear) = 1 /\ Len(handed[s].forest) = 0
        /\ Returned(s, "compare_models") =>
              Len(handed[s].linear) = 1 /\ Len(handed[s].forest) = 1
        /\ Len(handed[s].linear) < 2 /\ Len(handed[s].forest) < 2
        /\ CallFn(s) = "predict_gld_price" => Len(handed[s].forest) = 0

C24_Witness ==
    \E s, t \in Sessions :
        /\ Returned(s, "predict_gld_price") /\ Len(handed[s].linear) = 1
        /\ Returned(t, "compare_models")
        /\ Len(handed[t].linear) = 1 /\ Len(handed[t].forest) = 1

\* The fields of a form, in the order of the inputs list.
Fields(w) == <<w.SPX, w.USO, w.SLV, w.EURUSD>>

C26_ConcurrentFlagsOneHeader ==
    (\A t \in Threads : thread[t].pc = "done" /\ thread[t].result.ok) =>
        LET header == SanitizeListForCsv(CSVLoggerHeaders(callback.components)) IN
        /\ Len(log_csv.rows) = Cardinality(Threads) + 1
        /\ log_csv.rows[1] = header
        /\ \A i \in 2..Len(log_csv.rows) : log_csv.rows[i] # header
        /\ {thread[t].result.value.v : t \in Threads} = 1..Cardinality(Threads)

\* C29: FlagMethod.__call__ does not let an exception of flag pass: a call in
\* which flag raised is in the except clause or has returned, and it returns
\* "Error!" when visual_feedback is true and None when it is false; a call in
\* which flag returned gives the button with the method's label, interactive,
\* when visual_feedback is true, and None when it is false.
C29_FlagMethodCatches ==
    \A t \in Threads :
        /\ ~thread[t].result.ok => thread[t].pc \in {"l488", "done"}
        /\ thread[t].pc = "done" =>
              IF thread[t].method.visual_feedback
              THEN IF thread[t].result.ok
                   THEN /\ thread[t].returned.type = "Button"
                        /\ thread[t].returned.v = thread[t].method.label
                        /\ thread[t].returned.interactive
                   ELSE thread[t].returned = Str("Error!")
              ELSE thread[t].returned = None

C29_Witness ==
    \E t, u \in Threads :
        /\ thread[t].pc = "done" /\ thread[u].pc = "done"
        /\ thread[t].result.error = "OSError"
        /\ thread[t].returned = Str("Error!")
        /\ thread[u].result.ok
        /\ thread[u].returned = Button("Flag as incorrect", TRUE)


\* The header row _save_as_csv writes for the saver's components.
HubHeader ==
    SanitizeListForCsv(Keys(DeserializeComponents(callback.components,
                                CHOOSE d \in HubFlagData : TRUE, "", "").features))

\* The threads whose call of _save_as_csv has counted the rows and not failed
\* afterwards.
Counted ==
    {t \in Threads : /\ thread[t].pc \in {"l348", "l492", "done"}
                     /\ thread[t].result.ok}

\* C27: in HuggingFaceDatasetSaver with separate_dirs false one thread at a
\* time is between the test of existence of data.csv and the folder upload,
\* and it holds the directory lock; data.csv has one header row, its first
\* row; the calls that counted got distinct sample numbers among the data
\* rows, and 1..n with n data rows when all n calls have returned one; the
\* info file is written at most once and uploaded at most once.
C27_HubFlagsSerialized ==
    LET rows == dataset.data_csv.rows IN
    /\ \A t \in Threads :
          thread[t].pc \in {"l377", "l379", "l389", "l348"} => dataset.dir_lock = t
    /\ dataset.data_csv.exists =>
          /\ rows[1] = HubHeader
          /\ \A i \in 2..Len(rows) : rows[i] # HubHeader
    /\ \A t \in Counted : thread[t].result.value.v \in 1..(Len(rows) - 1)
    /\ \A s, t \in Counted :
          s # t => thread[s].result.value.v # thread[t].result.value.v
    /\ Counted = Threads /\ (\A t \in Threads : thread[t].pc = "done") =>
          /\ Len(rows) = Cardinality(Threads) + 1
          /\ {thread[t].result.value.v : t \in Threads} = 1..Cardinality(Threads)
    /\ dataset.infos_file.writes <= 1
    /\ dataset.upload_file <= 1

C27_Witness ==
    /\ callback.class = "HuggingFaceDatasetSaver"
    /\ \A t \in Threads : thread[t].pc = "done" /\ thread[t].result.ok
    /\ Len(dataset.data_csv.rows) = Cardinality(Threads) + 1
    /\ dataset.infos_file.writes = 1
    /\ dataset.upload_file = 1
    /\ Len(dataset.upload_folder) = Cardinality(Threads)

\* C28: _deserialize_components returns as many features as row values, for
\* every list of components.
C28_FeaturesMatchRow ==
    \A t \in Threads :
        (callback.class = "HuggingFaceDatasetSaver"
            /\ thread[t].pc \notin {"idle", "l323"}) =>
        Len(thread[t].features) = Len(thread[t].row)


=============================================================================
